---- MODULE Spec2Model ----
(***************************************************************************)
(* Model of src/lib/config/Notifications.ts: the lazily loaded             *)
(* notification registry (lookupNotification / loadNotifications) and the  *)
(* records built from the definition file (Notification,                   *)
(* NotificationVariable, NotificationState, NotificationEvent).            *)
(*                                                                         *)
(* Strings that the code inspects character by character (object keys)     *)
(* are sequences of one-character strings.  JSON values are tagged         *)
(* records.  Exceptions are tagged records [t |-> "throw", e |-> error].   *)
(***************************************************************************)
EXTENDS Integers, Sequences, FiniteSets, TLC

----------------------------------------------------------------------------
(* JSON values, as JSON5.parse returns them *)

Undefined == [t |-> "undefined"]
JNull == [t |-> "null"]
JNum(n) == [t |-> "number", v |-> n]
JBool(b) == [t |-> "boolean", v |-> b]
JStr(s) == [t |-> "string", v |-> s]
JObj(es) == [t |-> "object", entries |-> es]
JArr(xs) == [t |-> "array", items |-> xs]

\* alcalzone-shared/typeguards
isObject(it) == it.t = "object"
isArray(it) == it.t = "array"

\* alcalzone-shared/objects: entries(obj) = the [key, value] pairs in key order
entries(obj) == obj.entries

\* property read on a value that is neither null nor undefined
Prop(o, k) ==
    IF o.t = "object" /\ \E i \in 1..Len(o.entries) : o.entries[i].k = k
    THEN o.entries[CHOOSE i \in 1..Len(o.entries) : o.entries[i].k = k].v
    ELSE Undefined

\* a property read on null or undefined raises a TypeError
Nullish(o) == o.t \in {"null", "undefined"}

----------------------------------------------------------------------------
(* Errors *)

\* new ZWaveError("The config file does not exist!", Config_Invalid)
MissingError ==
    [zwave |-> TRUE, code |-> "Config_Invalid", message |-> "The config file does not exist!"]

\* new ZWaveError("The config file is malformed!", Config_Invalid)
MalformedError ==
    [zwave |-> TRUE, code |-> "Config_Invalid", message |-> "The config file is malformed!"]

\* an exception that is no ZWaveError, raised by a property read
TypeError == [zwave |-> FALSE, code |-> "none", message |-> "TypeError"]

\* an exception that is no ZWaveError, raised by JSON5.parse
SyntaxError == [zwave |-> FALSE, code |-> "none", message |-> "SyntaxError"]

\* an exception that is no ZWaveError, raised by the file system
IOError == [zwave |-> FALSE, code |-> "none", message |-> "EIO"]

Throw(e) == [t |-> "throw", e |-> e]
IsThrow(x) == x.t = "throw"

throwInvalidConfig == Throw(MalformedError)

----------------------------------------------------------------------------
(* Hexadecimal keys *)

HexDigits ==
    {"0", "1", "2", "3", "4", "5", "6", "7", "8", "9",
     "a", "b", "c", "d", "e", "f", "A", "B", "C", "D", "E", "F"}

DigitValue(c) ==
    CASE c = "0" -> 0 [] c = "1" -> 1 [] c = "2" -> 2 [] c = "3" -> 3
      [] c = "4" -> 4 [] c = "5" -> 5 [] c = "6" -> 6 [] c = "7" -> 7
      [] c = "8" -> 8 [] c = "9" -> 9
      [] c \in {"a", "A"} -> 10 [] c \in {"b", "B"} -> 11
      [] c \in {"c", "C"} -> 12 [] c \in {"d", "D"} -> 13
      [] c \in {"e", "E"} -> 14 [] c \in {"f", "F"} -> 15

\* /^0x[a-fA-F0-9]+$/.test(id)
hexKeyRegexTest(id) ==
    /\ Len(id) >= 3
    /\ id[1] = "0"
    /\ id[2] = "x"
    /\ \A i \in 3..Len(id) : id[i] \in HexDigits

\* id.slice(2)
Slice2(id) == SubSeq(id, 3, Len(id))

RECURSIVE ParseDigits(_, _, _)
ParseDigits(s, i, acc) ==
    IF i > Len(s) \/ s[i] \notin HexDigits
    THEN acc
    ELSE ParseDigits(s, i + 1, acc * 16 + DigitValue(s[i]))

\* parseInt(s, 16) for a string of digits: the value of the longest prefix of
\* hexadecimal digits (the code only calls it on strings the pattern accepted,
\* which have at least one digit)
parseInt16(s) == ParseDigits(s, 1, 0)

----------------------------------------------------------------------------
(* Maps: new Map(), Map.set, Map.has, Map.get *)

EmptyMap == <<>>
\* faulty variant: an entry under a key the map already has is dropped
MapSetKeepFirst(m, k, v) ==
    [x \in (DOMAIN m) \cup {k} |-> IF x \in DOMAIN m THEN m[x] ELSE v]
MapSet(m, k, v) == [x \in (DOMAIN m) \cup {k} |-> IF x = k THEN v ELSE m[x]]
MapHas(m, k) == k \in DOMAIN m
MapGet(m, k) == IF k \in DOMAIN m THEN m[k] ELSE Undefined

----------------------------------------------------------------------------
(* The property names the code reads *)

KeyName == <<"n", "a", "m", "e">>
KeyVariables == <<"v", "a", "r", "i", "a", "b", "l", "e", "s">>
KeyEvents == <<"e", "v", "e", "n", "t", "s">>
KeyStates == <<"s", "t", "a", "t", "e", "s">>
KeyIdle == <<"i", "d", "l", "e">>
KeyLabel == <<"l", "a", "b", "e", "l">>
KeyDescription == <<"d", "e", "s", "c", "r", "i", "p", "t", "i", "o", "n">>

----------------------------------------------------------------------------
(* The records built from the definition file.  A constructor yields the   *)
(* record, or Throw(e) when it raises e.                                    *)

Ok(v) == [t |-> "ok", v |-> v]

\* class NotificationState
NotificationState(id, definition) ==
    IF Nullish(definition)
    THEN Throw(TypeError)
    ELSE [t |-> "NotificationState", id |-> id,
          label |-> Prop(definition, KeyLabel),
          description |-> Prop(definition, KeyDescription)]

\* class NotificationEvent
NotificationEvent(id, definition) ==
    IF Nullish(definition)
    THEN Throw(TypeError)
    ELSE [t |-> "NotificationEvent", id |-> id,
          label |-> Prop(definition, KeyLabel),
          description |-> Prop(definition, KeyDescription)]

\* the loop over entries(definition.states) in NotificationVariable
RECURSIVE StatesLoop(_, _, _)
StatesLoop(es, i, states) ==
    IF i > Len(es)
    THEN Ok(states)
    ELSE IF ~hexKeyRegexTest(es[i].k)
    THEN throwInvalidConfig
    ELSE LET stateIdNum == parseInt16(Slice2(es[i].k))
             state == NotificationState(stateIdNum, es[i].v)
         IN  IF IsThrow(state)
             THEN state
             ELSE StatesLoop(es, i + 1, MapSet(states, stateIdNum, state))

\* faulty variant: idle is taken for false whenever it is falsy (!!idle)
IdleOfTruthy(definition) ==
    LET idle == Prop(definition, KeyIdle)
    IN  \/ idle.t = "undefined"
        \/ idle.t = "string"
        \/ idle.t = "boolean" /\ idle.v

\* definition.idle !== false
IdleOf(definition) ==
    LET idle == Prop(definition, KeyIdle)
    IN  ~(idle.t = "boolean" /\ idle.v = FALSE)

\* faulty variant: a states field that is not an object counts as no states
NotificationVariableLenient(definition) ==
    IF Nullish(definition)
    THEN Throw(TypeError)
    ELSE LET states == Prop(definition, KeyStates)
             built == IF isObject(states)
                      THEN StatesLoop(entries(states), 1, EmptyMap)
                      ELSE Ok(EmptyMap)
         IN  IF IsThrow(built)
             THEN built
             ELSE [t |-> "NotificationVariable",
                   name |-> Prop(definition, KeyName),
                   idle |-> IdleOf(definition),
                   states |-> built.v]

\* class NotificationVariable
NotificationVariable(definition) ==
    IF Nullish(definition)
    THEN Throw(TypeError)
    ELSE LET states == Prop(definition, KeyStates)
         IN  IF ~isObject(states)
             THEN throwInvalidConfig
             ELSE LET built == StatesLoop(entries(states), 1, EmptyMap)
                  IN  IF IsThrow(built)
                      THEN built
                      ELSE [t |-> "NotificationVariable",
                            name |-> Prop(definition, KeyName),
                            idle |-> IdleOf(definition),
                            states |-> built.v]

\* definition.variables.map(v => new NotificationVariable(v))
RECURSIVE VariablesMap(_, _, _)
VariablesMap(items, i, acc) ==
    IF i > Len(items)
    THEN Ok(acc)
    ELSE LET v == NotificationVariable(items[i])
         IN  IF IsThrow(v) THEN v ELSE VariablesMap(items, i + 1, Append(acc, v))

\* the loop over entries(definition.events) in Notification
RECURSIVE EventsLoop(_, _, _)
EventsLoop(es, i, events) ==
    IF i > Len(es)
    THEN Ok(events)
    ELSE IF ~hexKeyRegexTest(es[i].k)
    THEN throwInvalidConfig
    ELSE LET eventIdNum == parseInt16(Slice2(es[i].k))
             event == NotificationEvent(eventIdNum, es[i].v)
         IN  IF IsThrow(event)
             THEN event
             ELSE EventsLoop(es, i + 1, MapSet(events, eventIdNum, event))

\* faulty variant: a variables field that is not an array is an error, as it
\* is for states
NotificationStrict(id, definition) ==
    IF Nullish(definition)
    THEN Throw(TypeError)
    ELSE LET vars == Prop(definition, KeyVariables)
             evs == Prop(definition, KeyEvents)
             variables == IF isArray(vars)
                          THEN VariablesMap(vars.items, 1, <<>>)
                          ELSE throwInvalidConfig
         IN  IF IsThrow(variables)
             THEN variables
             ELSE LET events == IF isObject(evs)
                                THEN EventsLoop(entries(evs), 1, EmptyMap)
                                ELSE Ok(EmptyMap)
                  IN  IF IsThrow(events)
                      THEN events
                      ELSE [t |-> "Notification", id |-> id,
                            name |-> Prop(definition, KeyName),
                            variables |-> variables.v,
                            events |-> events.v]

\* class Notification (constructor)
Notification(id, definition) ==
    IF Nullish(definition)
    THEN Throw(TypeError)
    ELSE LET vars == Prop(definition, KeyVariables)
             evs == Prop(definition, KeyEvents)
             variables == IF isArray(vars)
                          THEN VariablesMap(vars.items, 1, <<>>)
                          ELSE Ok(<<>>)
         IN  IF IsThrow(variables)
             THEN variables
             ELSE LET events == IF isObject(evs)
                                THEN EventsLoop(entries(evs), 1, EmptyMap)
                                ELSE Ok(EmptyMap)
                  IN  IF IsThrow(events)
                      THEN events
                      ELSE [t |-> "Notification", id |-> id,
                            name |-> Prop(definition, KeyName),
                            variables |-> variables.v,
                            events |-> events.v]

\* faulty variant: the last match instead of the first
FindVariableLast(variables, value, i) ==
    LET matches == {j \in i..Len(variables) : MapHas(variables[j].states, value)}
    IN  IF matches = {} THEN 0 ELSE CHOOSE j \in matches : \A l \in matches : l <= j

\* this.variables.find(v => v.states.has(value)): the index of the first
\* match, 0 when there is none
RECURSIVE FindVariable(_, _, _)
FindVariable(variables, value, i) ==
    IF i > Len(variables)
    THEN 0
    ELSE IF MapHas(variables[i].states, value)
    THEN i
    ELSE FindVariable(variables, value, i + 1)

\* the descriptor of a state of variable i
StateDescriptor(n, value, i) ==
    LET variable == n.variables[i]
        state == MapGet(variable.states, value)
    IN  [type |-> "state", value |-> value,
         idle |-> variable.idle, label |-> state.label,
         description |-> state.description,
         variableName |-> variable.name]

\* the descriptor of an event
EventDescriptor(n, value) ==
    LET event == MapGet(n.events, value)
    IN  [type |-> "event", label |-> event.label,
         description |-> event.description]

\* faulty variant: the variables are searched before the events
lookupValueStatesFirst(n, value) ==
    LET i == FindVariable(n.variables, value, 1)
    IN  IF i # 0
        THEN StateDescriptor(n, value, i)
        ELSE IF MapHas(n.events, value)
        THEN EventDescriptor(n, value)
        ELSE Undefined

\* faulty variant: the event is taken apart without asking whether there is one
lookupValueNoGuard(n, value) ==
    IF MapHas(n.events, value)
    THEN EventDescriptor(n, value)
    ELSE Throw(TypeError)

\* Notification.lookupValue
lookupValue(n, value) ==
    IF MapHas(n.events, value)
    THEN EventDescriptor(n, value)
    ELSE LET i == FindVariable(n.variables, value, 1)
         IN  IF i # 0
             THEN StateDescriptor(n, value, i)
             ELSE Undefined

----------------------------------------------------------------------------
(* loadNotifications, after the file was read *)

\* The contents of the file are given by what JSON5.parse makes of them:
\* [parses |-> FALSE] for text the parser rejects, or
\* [parses |-> TRUE, value |-> the parsed value].

\* faulty variant: an entry whose key is not hexadecimal is skipped
RECURSIVE LoadLoopSkip(_, _, _)
LoadLoopSkip(es, i, ret) ==
    IF i > Len(es)
    THEN Ok(ret)
    ELSE IF ~hexKeyRegexTest(es[i].k)
    THEN LoadLoopSkip(es, i + 1, ret)
    ELSE LET idNum == parseInt16(Slice2(es[i].k))
             ntfcn == Notification(idNum, es[i].v)
         IN  IF IsThrow(ntfcn)
             THEN ntfcn
             ELSE LoadLoopSkip(es, i + 1, MapSet(ret, idNum, ntfcn))

\* the loop over entries(definition) in loadNotifications
RECURSIVE LoadLoop(_, _, _)
LoadLoop(es, i, ret) ==
    IF i > Len(es)
    THEN Ok(ret)
    ELSE IF ~hexKeyRegexTest(es[i].k)
    THEN throwInvalidConfig
    ELSE LET idNum == parseInt16(Slice2(es[i].k))
             ntfcn == Notification(idNum, es[i].v)
         IN  IF IsThrow(ntfcn)
             THEN ntfcn
             ELSE LoadLoop(es, i + 1, MapSet(ret, idNum, ntfcn))

\* the body of the try block, given the outcome of readFile
\* ([ok |-> FALSE] when readFile raised, else [ok |-> TRUE, text |-> contents])
TryBody(read) ==
    IF ~read.ok
    THEN Throw(IOError)
    ELSE IF ~read.text.parses
    THEN Throw(SyntaxError)
    ELSE IF ~isObject(read.text.value)
    THEN throwInvalidConfig
    ELSE LoadLoop(entries(read.text.value), 1, EmptyMap)

\* faulty variant: the catch block rethrows whatever it caught
CatchBlockRethrow(r) == r

\* the catch block: a ZWaveError is rethrown, anything else becomes
\* "The config file is malformed!"
CatchBlock(r) ==
    IF IsThrow(r)
    THEN IF r.e.zwave THEN Throw(r.e) ELSE Throw(MalformedError)
    ELSE r

\* loadNotifications from the readFile call on: Ok(map) or Throw(e)
LoadFromFile(read) == CatchBlock(TryBody(read))

----------------------------------------------------------------------------
(* Definition files the model is run on.  A file's weight is the number of  *)
(* notifications, variables, events and states it holds.  Labels and names  *)
(* tell where in the file a record comes from: <<n, j, e>> is entry e of    *)
(* variable j (0: the events) of the n-th notification.                     *)

MaxWeight == 5

\* keys of the root object: the first entry has a good or a bad key, a later
\* one the same number written differently, another number, or a bad key
TopKeys(n) ==
    IF n = 1
    THEN {<<"0", "x", "6">>, <<"z", "z">>}
    ELSE {<<"0", "x", "0", "6">>, <<"0", "x", "7">>, <<"z", "z">>}

\* keys of the events and states objects
MapKeys == {<<"0", "x", "a">>, <<"0", "x", "A">>, <<"0", "x", "g">>}

\* the idle field of variable j of notification n; Undefined: left out
IdleValue(n, j) == IF (n + j) % 2 = 0 THEN Undefined ELSE JBool(FALSE)

\* an object with the given fields, leaving out those that are Undefined
ObjectOf(fields) == JObj(SelectSeq(fields, LAMBDA f : f.v # Undefined))

\* {label, description?}: every entry but the second carries a description
LeafDefinition(n, j, e) ==
    ObjectOf(<<[k |-> KeyLabel, v |-> JStr(<<n, j, e>>)],
               [k |-> KeyDescription,
                v |-> IF e = 2 THEN Undefined ELSE JStr(<<n, j, e, 0>>)]>>)

\* the sequences of w distinct keys
RECURSIVE KeySeqs(_, _)
KeySeqs(keys, w) ==
    IF w = 0
    THEN {<<>>}
    ELSE UNION {{<<k>> \o rest : rest \in KeySeqs(keys \ {k}, w - 1)} : k \in keys}

\* the events or states objects with w entries
MapObjects(n, j, w) ==
    {JObj([e \in 1..w |-> [k |-> ks[e], v |-> LeafDefinition(n, j, e)]]) :
        ks \in KeySeqs(MapKeys, w)}

\* what an events or states field of weight w can be: left out (0), an
\* empty object or a number instead of an object (1), or an object with w
\* entries
MapFields(n, j, w) ==
    IF w = 0
    THEN {Undefined}
    ELSE MapObjects(n, j, w) \cup (IF w = 1 THEN {JObj(<<>>), JNum(0)} ELSE {})

\* the variable definitions whose states weigh w
VariableDefinitions(n, j, w) ==
    {ObjectOf(<<[k |-> KeyName, v |-> JStr(<<n, j, 0>>)],
                [k |-> KeyIdle, v |-> IdleValue(n, j)],
                [k |-> KeyStates, v |-> states]>>) :
        states \in MapFields(n, j, w)}

\* the sequences of variable definitions, numbered from j, of total weight w
RECURSIVE VariableSeqs(_, _, _)
VariableSeqs(n, j, w) ==
    IF w = 0
    THEN {<<>>}
    ELSE UNION {{<<v>> \o rest : v \in VariableDefinitions(n, j, s),
                                 rest \in VariableSeqs(n, j + 1, w - 1 - s)} :
                s \in 0..(w - 1)}

\* what a variables field of weight w can be: left out (0), an empty array
\* or a number instead of an array (1), or an array of weight w
VariablesFields(n, w) ==
    IF w = 0
    THEN {Undefined}
    ELSE {JArr(vs) : vs \in VariableSeqs(n, 1, w)}
         \cup (IF w = 1 THEN {JArr(<<>>), JNum(0)} ELSE {})

\* the notification definitions of weight w (without the notification itself)
NotificationDefinitions(n, w) ==
    UNION {{ObjectOf(<<[k |-> KeyName, v |-> JStr(<<n, 0, 0>>)],
                       [k |-> KeyVariables, v |-> variables],
                       [k |-> KeyEvents, v |-> events]>>) :
                variables \in VariablesFields(n, a),
                events \in MapFields(n, 0, w - a)} :
           a \in 0..w}

\* a root object has as many entries as there are keys, at most
MaxEntries == Cardinality(TopKeys(1) \cup TopKeys(2))

\* NotificationDefinitions, computed once
DefinitionsTable ==
    [n \in 1..MaxEntries |-> [w \in 0..MaxWeight |-> NotificationDefinitions(n, w)]]

\* the sequences of root entries, numbered from n, of weight at most w, with
\* keys not in used
RECURSIVE RootEntries(_, _, _)
RootEntries(n, w, used) ==
    IF w = 0 \/ n > MaxEntries
    THEN {<<>>}
    ELSE {<<>>} \cup
         UNION {{<<[k |-> key, v |-> d]>> \o rest :
                    d \in DefinitionsTable[n][a],
                    rest \in RootEntries(n + 1, w - 1 - a, used \cup {key})} :
                key \in TopKeys(n) \ used, a \in 0..(w - 1)}

\* a file that is not JSON5
GarbledFile == [parses |-> FALSE]

\* the definition file of the end-to-end example: one notification, Water,
\* with one variable of two states
WaterDefinition ==
    JObj(<<[k |-> KeyName, v |-> JStr("Water")],
           [k |-> KeyVariables,
            v |-> JArr(<<JObj(<<
                [k |-> KeyName, v |-> JStr("Leak detected")],
                [k |-> KeyStates,
                 v |-> JObj(<<
                    [k |-> <<"0", "x", "1">>,
                     v |-> JObj(<<[k |-> KeyLabel, v |-> JStr("Leak")]>>)],
                    [k |-> <<"0", "x", "2">>,
                     v |-> JObj(<<[k |-> KeyLabel, v |-> JStr("No leak")]>>)]>>)]>>)>>)]>>)

WaterFile ==
    [parses |-> TRUE,
     value |-> JObj(<<[k |-> <<"0", "x", "6">>, v |-> WaterDefinition]>>)]

\* the same file with a second root entry whose key is not hexadecimal
BadKeyFile ==
    [parses |-> TRUE,
     value |-> JObj(<<[k |-> <<"0", "x", "6">>, v |-> WaterDefinition],
                      [k |-> <<"z", "z">>, v |-> WaterDefinition]>>)]

\* the states of the definition file: it does not exist, or it exists with
\* some contents
NoFile == [exists |-> FALSE]
FileWith(text) == [exists |-> TRUE, text |-> text]
SampleResources == {NoFile, FileWith(WaterFile), FileWith(BadKeyFile)}

\* files with null where a definition is expected: for a notification, for an
\* element of variables, for an event and for a state
NullNotificationFile ==
    [parses |-> TRUE, value |-> JObj(<<[k |-> <<"0", "x", "6">>, v |-> JNull]>>)]

NullVariableFile ==
    [parses |-> TRUE,
     value |-> JObj(<<[k |-> <<"0", "x", "6">>,
                       v |-> JObj(<<[k |-> KeyName, v |-> JStr("Water")],
                                    [k |-> KeyVariables, v |-> JArr(<<JNull>>)]>>)]>>)]

NullEventFile ==
    [parses |-> TRUE,
     value |-> JObj(<<[k |-> <<"0", "x", "6">>,
                       v |-> JObj(<<[k |-> KeyName, v |-> JStr("Water")],
                                    [k |-> KeyEvents,
                                     v |-> JObj(<<[k |-> <<"0", "x", "a">>,
                                                   v |-> JNull]>>)]>>)]>>)]

NullStateFile ==
    [parses |-> TRUE,
     value |-> JObj(<<[k |-> <<"0", "x", "6">>,
                       v |-> JObj(<<[k |-> KeyName, v |-> JStr("Water")],
                                    [k |-> KeyVariables,
                                     v |-> JArr(<<JObj(<<
                                        [k |-> KeyName, v |-> JStr("Leak detected")],
                                        [k |-> KeyStates,
                                         v |-> JObj(<<[k |-> <<"0", "x", "a">>,
                                                       v |-> JNull]>>)]>>)>>)]>>)]>>)]

\* a file whose root is a number
NumberFile == [parses |-> TRUE, value |-> JNum(0)]

\* the files the handling of errors is run on
ErrorResources ==
    {NoFile, FileWith(GarbledFile), FileWith(NumberFile),
     FileWith(NullNotificationFile), FileWith(NullVariableFile),
     FileWith(NullEventFile), FileWith(NullStateFile),
     FileWith(BadKeyFile), FileWith(WaterFile)}

\* what the idle field of a variable can be; Undefined: left out
IdleValues == {Undefined, JBool(FALSE), JBool(TRUE), JStr("no"), JNum(0), JNull}

\* the single state of a variable of these files is for value 10 or value 2
IdleStateKeys == {<<"0", "x", "a">>, <<"0", "x", "2">>}

MaxVariables == 2

\* variable j with the given idle field and one state under the given key
IdleVariable(j, idle, key) ==
    ObjectOf(<<[k |-> KeyName, v |-> JStr(<<1, j, 0>>)],
               [k |-> KeyIdle, v |-> idle],
               [k |-> KeyStates,
                v |-> JObj(<<[k |-> key, v |-> LeafDefinition(1, j, 1)]>>)]>>)

\* the sequences of len such variables, numbered from j
RECURSIVE IdleVariableSeqs(_, _)
IdleVariableSeqs(j, len) ==
    IF len = 0
    THEN {<<>>}
    ELSE {<<IdleVariable(j, idle, key)>> \o rest :
             idle \in IdleValues, key \in IdleStateKeys,
             rest \in IdleVariableSeqs(j + 1, len - 1)}

\* a file with one notification, 0x6, that has the given variables
IdleFile(variables) ==
    [parses |-> TRUE,
     value |-> JObj(<<[k |-> <<"0", "x", "6">>,
                       v |-> JObj(<<[k |-> KeyName, v |-> JStr(<<1, 0, 0>>)],
                                    [k |-> KeyVariables, v |-> JArr(variables)]>>)]>>)]

----------------------------------------------------------------------------
(* The registry and the calls of lookupNotification *)

MaxCalls == 3
MaxChanges == 1

Calls == 1..MaxCalls

\* the notification types that are asked for, and the values looked up
NotificationTypes == {6, 7}
LookupValues == {10, 2}

VARIABLES
    resource,       \* the definition file, as the file system holds it
    notifications,  \* the module-level cache: Undefined or [t |-> "Map", m |-> map]
    calls,          \* the calls of lookupNotification and where each stands
    log,            \* what log.driver.print was called with
    changes         \* how often the definition file was changed

vars == <<resource, notifications, calls, log, changes>>

Pending == [t |-> "pending"]

\* calls[c].pc:
\*   "idle"        not called yet
\*   "pathExists"  in loadNotifications, awaiting pathExists (line 33)
\*   "readFile"    in loadNotifications, awaiting readFile (line 41)
\*   "settled"     loadNotifications has settled (outcome), lookupNotification
\*                 has not resumed from its await yet (line 74)
\*   "done"        lookupNotification has returned (ret) or thrown (ret is a Throw)
\* value, result: the caller's use of the returned record, lookupValue(value)
\* established: whether the cache was set when the call was made
\* afterFailure: whether a load had failed as missing or malformed when the
\*   call was made
IdleCall ==
    [pc |-> "idle", notificationType |-> 0, outcome |-> Pending, ret |-> Pending,
     value |-> 0, result |-> Pending, established |-> FALSE, afterFailure |-> FALSE]

\* faulty variant: every error is taken for a missing or malformed file
IsAnyError(e) == TRUE

\* e instanceof ZWaveError && e.code === ZWaveErrorCodes.Config_Invalid
IsConfigInvalid(e) == e.zwave /\ e.code = "Config_Invalid"

\* whether some call has gone through the catch branch for a missing or
\* malformed file
Failed ==
    \E c \in Calls : /\ calls[c].pc = "done"
                     /\ IsThrow(calls[c].outcome)
                     /\ IsConfigInvalid(calls[c].outcome.e)

\* faulty variant: the line leaves out the error's message
LogLineNoReason(e) ==
    [text |-> "Could not load notification config: ", reason |-> "", level |-> "error"]

\* log.driver.print(`Could not load notification config: ${e.message}`, "error")
LogLine(e) ==
    [text |-> "Could not load notification config: ", reason |-> e.message,
     level |-> "error"]

\* faulty variant: the map is read at the wrong key
GetNotificationOffByOne(cache, notificationType) == MapGet(cache.m, notificationType + 1)

\* notifications.get(notificationType)
GetNotification(cache, notificationType) == MapGet(cache.m, notificationType)

TypeOK ==
    /\ resource.exists \in BOOLEAN
    /\ notifications.t \in {"undefined", "Map"}
    /\ \A c \in Calls : calls[c].pc \in {"idle", "pathExists", "readFile", "settled", "done"}
    /\ changes \in 0..MaxChanges

\* faulty variant: every call loads the file, whether the cache is set or not
EnterAlwaysLoads(c, notificationType) ==
    /\ calls[c].pc = "idle"
    /\ c > 1 => calls[c - 1].pc # "idle"
    /\ calls' = [calls EXCEPT ![c] =
          [@ EXCEPT !.pc = "pathExists",
                    !.notificationType = notificationType,
                    !.afterFailure = Failed]]
    /\ UNCHANGED <<resource, notifications, log, changes>>

\* lookupNotification is called: lines 72-74 up to the first await inside
\* loadNotifications (line 33), or line 92 when the cache is set.
\* Calls are numbered in the order they are made.
Enter(c, notificationType) ==
    /\ calls[c].pc = "idle"
    /\ c > 1 => calls[c - 1].pc # "idle"
    /\ calls' = [calls EXCEPT ![c] =
          IF notifications.t = "undefined"
          THEN [@ EXCEPT !.pc = "pathExists",
                         !.notificationType = notificationType,
                         !.afterFailure = Failed]
          ELSE [@ EXCEPT !.pc = "done",
                         !.notificationType = notificationType,
                         !.established = TRUE,
                         !.afterFailure = Failed,
                         !.ret = GetNotification(notifications, notificationType)]]
    /\ UNCHANGED <<resource, notifications, log, changes>>

\* pathExists(configPath) completes (lines 33-38): the file is there and
\* readFile is started, or loadNotifications throws
PathExistsDone(c) ==
    /\ calls[c].pc = "pathExists"
    /\ calls' = [calls EXCEPT ![c] =
          IF resource.exists
          THEN [@ EXCEPT !.pc = "readFile"]
          ELSE [@ EXCEPT !.pc = "settled", !.outcome = Throw(MissingError)]]
    /\ UNCHANGED <<resource, notifications, log, changes>>

\* pathExists(configPath) rejects: the error leaves loadNotifications as it is
\* (line 33 is outside the try block)
PathExistsFault(c) ==
    /\ calls[c].pc = "pathExists"
    /\ calls' = [calls EXCEPT ![c] = [@ EXCEPT !.pc = "settled", !.outcome = Throw(IOError)]]
    /\ UNCHANGED <<resource, notifications, log, changes>>

\* what readFile(configPath, "utf8") yields on the file as it is now
ReadFile(file) ==
    IF file.exists THEN [ok |-> TRUE, text |-> file.text] ELSE [ok |-> FALSE]

\* readFile completes and the rest of loadNotifications runs (lines 41-61)
ReadFileDone(c) ==
    /\ calls[c].pc = "readFile"
    /\ calls' = [calls EXCEPT ![c] =
          [@ EXCEPT !.pc = "settled", !.outcome = LoadFromFile(ReadFile(resource))]]
    /\ UNCHANGED <<resource, notifications, log, changes>>

\* lookupNotification resumes from the await (lines 74-92)
Resume(c) ==
    /\ calls[c].pc = "settled"
    /\ LET outcome == calls[c].outcome
           type == calls[c].notificationType
       IN  IF ~IsThrow(outcome)
           THEN /\ notifications' = [t |-> "Map", m |-> outcome.v]
                /\ calls' = [calls EXCEPT ![c] =
                      [@ EXCEPT !.pc = "done",
                                !.ret = GetNotification(notifications', type)]]
                /\ UNCHANGED log
           ELSE IF IsConfigInvalid(outcome.e)
           THEN /\ log' = Append(log, LogLine(outcome.e))
                /\ notifications' = [t |-> "Map", m |-> EmptyMap]
                /\ calls' = [calls EXCEPT ![c] =
                      [@ EXCEPT !.pc = "done",
                                !.ret = GetNotification(notifications', type)]]
           ELSE /\ calls' = [calls EXCEPT ![c] =
                      [@ EXCEPT !.pc = "done", !.ret = Throw(outcome.e)]]
                /\ UNCHANGED <<notifications, log>>
    /\ UNCHANGED <<resource, changes>>

\* the caller looks a value up in the record it was given
LookupValue(c, value) ==
    /\ calls[c].pc = "done"
    /\ calls[c].ret.t = "Notification"
    /\ calls[c].result = Pending
    /\ calls' = [calls EXCEPT ![c] =
          [@ EXCEPT !.value = value, !.result = lookupValue(calls[c].ret, value)]]
    /\ UNCHANGED <<resource, notifications, log, changes>>

\* the definition file is created, deleted or rewritten by someone else
ResourceChange ==
    /\ changes < MaxChanges
    /\ \E r \in SampleResources \ {resource} : resource' = r
    /\ changes' = changes + 1
    /\ UNCHANGED <<notifications, calls, log>>

Init ==
    /\ resource \in SampleResources
    /\ notifications = Undefined
    /\ calls = [c \in Calls |-> IdleCall]
    /\ log = <<>>
    /\ changes = 0

Next ==
    \/ \E c \in Calls, type \in NotificationTypes : Enter(c, type)
    \/ \E c \in Calls : PathExistsDone(c)
    \/ \E c \in Calls : PathExistsFault(c)
    \/ \E c \in Calls : ReadFileDone(c)
    \/ \E c \in Calls : Resume(c)
    \/ ResourceChange

\* the process with overlapping calls and a file that changes under it
Spec == Init /\ [][Next]_vars

\* what a load that got to readFile can settle with
SampleOutcomes == {LoadFromFile(ReadFile(r)) : r \in SampleResources}

\* readFile completes for call c and its load settles.  Under Spec this is
\* ReadFileDone(c): no other step takes a call from "readFile" to "settled",
\* and both are enabled exactly when the call awaits readFile.
ReadFileSettles(c) ==
    /\ calls[c].pc = "readFile"
    /\ \E outcome \in SampleOutcomes :
          calls' = [calls EXCEPT ![c] = [@ EXCEPT !.pc = "settled", !.outcome = outcome]]
    /\ UNCHANGED <<resource, notifications, log, changes>>

\* the process when every pathExists and every readFile that was started
\* completes, and the continuation of every settled await is run
Fairness ==
    \A c \in Calls :
        /\ WF_vars(PathExistsDone(c) \/ PathExistsFault(c))
        /\ WF_vars(ReadFileSettles(c))
        /\ WF_vars(Resume(c))

\* overlapping calls on a file that stays as it is
NextFair ==
    \/ \E c \in Calls, type \in NotificationTypes : Enter(c, type)
    \/ \E c \in Calls : PathExistsDone(c)
    \/ \E c \in Calls : PathExistsFault(c)
    \/ \E c \in Calls : ReadFileDone(c)
    \/ \E c \in Calls : Resume(c)

SpecFair == Init /\ [][NextFair]_vars /\ Fairness

\* one call on a file that stays as it is, and the caller's lookup of a value
\* The file is text the parser rejects, an array, or an object of weight at
\* most MaxWeight.
InitLoad ==
    /\ \/ resource \in {FileWith(GarbledFile),
                         FileWith([parses |-> TRUE, value |-> JArr(<<>>)]),
                         FileWith([parses |-> TRUE, value |-> JObj(<<>>)])}
       \/ \E key \in TopKeys(1), a \in 0..(MaxWeight - 1) :
            \E rest \in RootEntries(2, MaxWeight - 1 - a, {key}) :
               \E d \in DefinitionsTable[1][a] :
                  resource = FileWith([parses |-> TRUE,
                                       value |-> JObj(<<[k |-> key, v |-> d]>> \o rest)])
    /\ notifications = Undefined
    /\ calls = [c \in Calls |-> IdleCall]
    /\ log = <<>>
    /\ changes = 0

NextLoad ==
    \/ \E type \in NotificationTypes : Enter(1, type)
    \/ PathExistsDone(1)
    \/ ReadFileDone(1)
    \/ Resume(1)
    \/ \E value \in LookupValues : LookupValue(1, value)

SpecLoad == InitLoad /\ [][NextLoad]_vars

\* one call on a file that may fail in every way, and may change under it
InitErrors ==
    /\ resource \in ErrorResources
    /\ notifications = Undefined
    /\ calls = [c \in Calls |-> IdleCall]
    /\ log = <<>>
    /\ changes = 0

NextErrors ==
    \/ \E type \in NotificationTypes : Enter(1, type)
    \/ PathExistsDone(1)
    \/ PathExistsFault(1)
    \/ ReadFileDone(1)
    \/ Resume(1)
    \/ ResourceChange

SpecErrors == InitErrors /\ [][NextErrors]_vars

\* one call on a file whose variables differ in their idle field
InitIdle ==
    /\ \E len \in 1..MaxVariables :
          \E variables \in IdleVariableSeqs(1, len) :
             resource = FileWith(IdleFile(variables))
    /\ notifications = Undefined
    /\ calls = [c \in Calls |-> IdleCall]
    /\ log = <<>>
    /\ changes = 0

SpecIdle == InitIdle /\ [][NextLoad]_vars

----------------------------------------------------------------------------
(* Claims about the lifecycle of the cache, checked under Spec *)

\* a load outcome that is the missing-file or the malformed-file error
RecognizedFailure(outcome) ==
    /\ outcome.t = "throw"
    /\ outcome.e.message \in {"The config file does not exist!",
                              "The config file is malformed!"}

\* a load outcome that is any other error
UnexpectedFailure(outcome) ==
    /\ outcome.t = "throw"
    /\ ~RecognizedFailure(outcome)

\* C1: once a load has failed as missing or malformed, every call made
\* afterwards returns absent, and does so without loading again.
C1_AbsentAfterFailure ==
    \A c \in Calls :
        (calls[c].pc # "idle" /\ calls[c].afterFailure) =>
            /\ calls[c].pc = "done"
            /\ calls[c].outcome = Pending
            /\ calls[c].ret = Undefined

\* C2: over all calls, overlapping ones included, at most one load attempt
\* runs to a success or to a missing/malformed failure.
C2_AtMostOneLoad ==
    Cardinality({c \in Calls : /\ calls[c].outcome # Pending
                               /\ ~UnexpectedFailure(calls[c].outcome)}) <= 1

\* what C3 says of one step
C3_Step ==
    \A c \in Calls :
        /\ (/\ calls[c].pc = "settled"
            /\ UnexpectedFailure(calls[c].outcome)
            /\ calls'[c].pc = "done")
           => (/\ calls'[c].ret = Throw(calls[c].outcome.e)
               /\ notifications' = notifications
               /\ log' = log)
        /\ (/\ calls[c].pc = "idle"
            /\ calls'[c].pc # "idle"
            /\ notifications.t = "undefined")
           => (/\ calls'[c].pc = "pathExists"
               /\ calls'[c].outcome = Pending)
        /\ (notifications'.t = "undefined") <=>
              ~(\E d \in Calls : /\ calls'[d].pc = "done"
                                 /\ calls'[d].outcome # Pending
                                 /\ ~UnexpectedFailure(calls'[d].outcome))

\* C3: a call whose load failed with an unexpected error throws that error and
\* leaves the cache and the log as they are; the cache is unset exactly as long
\* as no call has completed a load with a map or a missing/malformed failure;
\* and a call made while the cache is unset starts a load of its own.
C3_UnexpectedErrorPropagates == [][C3_Step]_vars

\* C3 witness: a call has thrown the unexpected error, the cache is still
\* unset, and the call after it is loading afresh
C3_Witness ==
    \E c \in Calls : \E d \in Calls :
        /\ c < d
        /\ calls[c].pc = "done"
        /\ calls[c].ret.t = "throw"
        /\ ~calls[c].ret.e.zwave
        /\ notifications.t = "undefined"
        /\ calls[d].pc = "readFile"

\* what C4 says of one step
C4_Step ==
    /\ (log' # log) =>
          (\E d \in Calls :
              /\ calls[d].pc = "settled"
              /\ RecognizedFailure(calls[d].outcome)
              /\ calls'[d].pc = "done")
    /\ \A c \in Calls :
          (/\ calls[c].pc = "settled"
           /\ RecognizedFailure(calls[c].outcome)
           /\ calls'[c].pc = "done")
          => (/\ Len(log') = Len(log) + 1
              /\ SubSeq(log', 1, Len(log)) = log
              /\ log'[Len(log')].reason = calls[c].outcome.e.message
              /\ log'[Len(log')].text = "Could not load notification config: "
              /\ notifications' = [t |-> "Map", m |-> <<>>]
              /\ calls'[c].ret = Undefined)

\* C4: the log grows exactly in the step in which a call resumes from a load
\* that failed as missing or malformed; that step appends one line that holds
\* the error's message, sets the cache to the empty map and makes the call
\* return absent.
C4_DiagnosticIffRecognizedFailure == [][C4_Step]_vars

\* C4 witness: a call that found the file malformed has returned absent, with
\* one line in the log and the cache empty
C4_Witness ==
    \E c \in Calls :
        /\ calls[c].pc = "done"
        /\ calls[c].outcome = Throw(MalformedError)
        /\ calls[c].ret = Undefined
        /\ Len(log) = 1
        /\ log[1].reason = "The config file is malformed!"
        /\ notifications = [t |-> "Map", m |-> <<>>]

\* C5 as stated: what the entry point returns is absent or a descriptor of a
\* state or an event, the result of lookupValue.
C5_EntryPointReturnsDescriptor ==
    \A c \in Calls :
        (calls[c].pc = "done" /\ calls[c].ret.t # "throw") =>
            \/ calls[c].ret = Undefined
            \/ /\ "type" \in DOMAIN calls[c].ret
               /\ calls[c].ret.type \in {"event", "state"}

\* what the amended C5 says of one step
C5_Step ==
    \A c \in Calls :
        (calls[c].pc # "done" /\ calls'[c].pc = "done" /\ calls'[c].ret.t # "throw") =>
           (/\ notifications'.t = "Map"
            /\ IF calls'[c].notificationType \in DOMAIN notifications'.m
               THEN /\ calls'[c].ret = notifications'.m[calls'[c].notificationType]
                    /\ calls'[c].ret.t = "Notification"
                    /\ calls'[c].ret.id = calls'[c].notificationType
               ELSE calls'[c].ret = Undefined)

\* C5 as amended: the entry point takes the notification type alone, and a
\* call that returns, first or later, returns the Notification record the
\* cache holds for that type as it returns, or absent when the cache holds
\* none; the value is looked up by the caller, in the record.
C5_EntryPointReturnsRecord == [][C5_Step]_vars

\* C5 witness: a first call has loaded the file and returned the record of
\* type 6, and a later call has returned absent for type 7
C5_Witness ==
    \E c \in Calls : \E d \in Calls :
        /\ calls[c].pc = "done" /\ calls[c].outcome.t = "ok"
        /\ calls[c].notificationType = 6
        /\ calls[c].ret.t = "Notification"
        /\ calls[d].pc = "done" /\ calls[d].established
        /\ calls[d].notificationType = 7
        /\ calls[d].ret = Undefined

----------------------------------------------------------------------------
(* Claims about loading a file and looking values up, checked under SpecLoad *)

\* what the file holds, read off the file itself
FileParses == resource.exists /\ resource.text.parses
RootIsObject == FileParses /\ resource.text.value.t = "object"
RootEntriesOfFile == IF RootIsObject THEN resource.text.value.entries ELSE <<>>

\* the keys the files are written with, and the numbers they denote
KeyDenotes(k) ==
    CASE k = <<"0", "x", "6">> -> 6
      [] k = <<"0", "x", "0", "6">> -> 6
      [] k = <<"0", "x", "7">> -> 7
      [] k = <<"0", "x", "a">> -> 10
      [] k = <<"0", "x", "A">> -> 10
      [] k = <<"0", "x", "2">> -> 2
      [] OTHER -> -1
KeyIsHex(k) == KeyDenotes(k) >= 0

\* the fields of a notification or variable definition of the file
FieldOf(definition, k) ==
    IF \E i \in 1..Len(definition.entries) : definition.entries[i].k = k
    THEN definition.entries[CHOOSE i \in 1..Len(definition.entries) :
                                definition.entries[i].k = k].v
    ELSE [t |-> "undefined"]
VariablesOfEntry(i) ==
    LET f == FieldOf(RootEntriesOfFile[i].v, KeyVariables)
    IN  IF f.t = "array" THEN f.items ELSE <<>>
EventKeysOfEntry(i) ==
    LET f == FieldOf(RootEntriesOfFile[i].v, KeyEvents)
    IN  IF f.t = "object" THEN {f.entries[e].k : e \in 1..Len(f.entries)} ELSE {}
StateKeysOfVariable(i, j) ==
    LET f == FieldOf(VariablesOfEntry(i)[j], KeyStates)
    IN  IF f.t = "object" THEN {f.entries[e].k : e \in 1..Len(f.entries)} ELSE {}

\* some key of the file, at some level, is not hexadecimal
SomeKeyNotHex ==
    \E i \in 1..Len(RootEntriesOfFile) :
        \/ ~KeyIsHex(RootEntriesOfFile[i].k)
        \/ \E k \in EventKeysOfEntry(i) : ~KeyIsHex(k)
        \/ \E j \in 1..Len(VariablesOfEntry(i)) :
              \E k \in StateKeysOfVariable(i, j) : ~KeyIsHex(k)

\* variable j of entry i has no states field, or one that is not an object
StatesBroken(i, j) == FieldOf(VariablesOfEntry(i)[j], KeyStates).t # "object"

\* the numbers of the root keys
RootNumbers == {KeyDenotes(RootEntriesOfFile[i].k) : i \in 1..Len(RootEntriesOfFile)}

\* C6: when the root is not an object or some key at some level is not
\* hexadecimal, the load fails as malformed, the call returns absent and the
\* cache is empty; and the cache never holds part of a file: it is unset,
\* empty, or holds a record for every root key.
C6_AllOrNothing ==
    /\ \A c \in Calls :
          (calls[c].outcome # Pending /\ (~RootIsObject \/ SomeKeyNotHex)) =>
             /\ calls[c].outcome = Throw(MalformedError)
             /\ calls[c].pc = "done" =>
                   /\ notifications = [t |-> "Map", m |-> <<>>]
                   /\ calls[c].ret = Undefined
    /\ notifications.t = "Map" =>
          \/ notifications.m = <<>>
          \/ /\ DOMAIN notifications.m = RootNumbers
             /\ ~SomeKeyNotHex

\* C6 witness: the first root entry is well formed and asked for, the second
\* has a key that is not hexadecimal, and the call has returned absent
C6_Witness ==
    /\ Len(RootEntriesOfFile) = 2
    /\ RootEntriesOfFile[1].k = <<"0", "x", "6">>
    /\ Len(VariablesOfEntry(1)) = 1
    /\ StateKeysOfVariable(1, 1) = {<<"0", "x", "a">>}
    /\ RootEntriesOfFile[2].k = <<"z", "z">>
    /\ calls[1].pc = "done"
    /\ calls[1].notificationType = 6
    /\ calls[1].ret = Undefined
    /\ notifications = [t |-> "Map", m |-> <<>>]

\* the root entry a notification type is read from: the last one whose key
\* denotes it (0: none)
SourceEntry(type) ==
    LET is == {i \in 1..Len(RootEntriesOfFile) : KeyDenotes(RootEntriesOfFile[i].k) = type}
    IN  IF is = {} THEN 0 ELSE CHOOSE i \in is : \A l \in is : l <= i

\* the event entries of root entry i whose key denotes value
SourceEvents(i, value) ==
    LET f == FieldOf(RootEntriesOfFile[i].v, KeyEvents)
    IN  IF f.t = "object"
        THEN {f.entries[e] : e \in {x \in 1..Len(f.entries) : KeyDenotes(f.entries[x].k) = value}}
        ELSE {}

\* the variables of root entry i with a state whose key denotes value
SourceVariables(i, value) ==
    {j \in 1..Len(VariablesOfEntry(i)) :
        \E k \in StateKeysOfVariable(i, j) : KeyDenotes(k) = value}

\* the state entries of variable j of root entry i whose key denotes value
SourceStates(i, j, value) ==
    LET f == FieldOf(VariablesOfEntry(i)[j], KeyStates)
    IN  {f.entries[e] : e \in {x \in 1..Len(f.entries) : KeyDenotes(f.entries[x].k) = value}}

\* the calls whose caller has looked a value up
LookedUp == {c \in Calls : calls[c].result # Pending}

\* C7: when the value is a key of the events and of some variable's states,
\* lookupValue returns the descriptor tagged "event", with the label and the
\* description of the event and nothing else.
C7_EventWins ==
    \A c \in LookedUp :
        LET n == calls[c].ret
            value == calls[c].value
            i == SourceEntry(calls[c].notificationType)
        IN  (/\ value \in DOMAIN n.events
             /\ \E j \in 1..Len(n.variables) : value \in DOMAIN n.variables[j].states)
            => /\ DOMAIN calls[c].result = {"type", "label", "description"}
               /\ calls[c].result.type = "event"
               /\ calls[c].result.label = n.events[value].label
               /\ calls[c].result.description = n.events[value].description
               /\ \E e \in SourceEvents(i, value) :
                     calls[c].result.label = FieldOf(e.v, KeyLabel)

\* C7 witness: value 10 is an event and a state of the record, and the lookup
\* has returned the event
C7_Witness ==
    \E c \in LookedUp :
        /\ calls[c].value = 10
        /\ 10 \in DOMAIN calls[c].ret.events
        /\ \E j \in 1..Len(calls[c].ret.variables) :
              10 \in DOMAIN calls[c].ret.variables[j].states
        /\ calls[c].result.type = "event"

\* C8: when the value is no event key, lookupValue returns the descriptor
\* tagged "state" of the first variable, in the order of the file's variables
\* array, that has the value among its states: the value, that variable's
\* idle flag and name, and the state's label and description.
C8_FirstVariableWins ==
    \A c \in LookedUp :
        LET n == calls[c].ret
            value == calls[c].value
            i == SourceEntry(calls[c].notificationType)
            js == SourceVariables(i, value)
        IN  (SourceEvents(i, value) = {} /\ js # {}) =>
               LET j == CHOOSE x \in js : \A l \in js : x <= l
                   def == VariablesOfEntry(i)[j]
               IN  /\ DOMAIN calls[c].result =
                         {"type", "value", "idle", "label", "description", "variableName"}
                   /\ calls[c].result.type = "state"
                   /\ calls[c].result.value = value
                   /\ calls[c].result.variableName = FieldOf(def, KeyName)
                   /\ calls[c].result.idle = n.variables[j].idle
                   /\ calls[c].result.label = n.variables[j].states[value].label
                   /\ calls[c].result.description = n.variables[j].states[value].description
                   /\ \E e \in SourceStates(i, j, value) :
                         calls[c].result.label = FieldOf(e.v, KeyLabel)

\* C8 witness: two variables have a state for value 10, there is no such
\* event, and the lookup has returned the state of the first
C8_Witness ==
    \E c \in LookedUp :
        /\ calls[c].value = 10
        /\ SourceEvents(SourceEntry(calls[c].notificationType), 10) = {}
        /\ SourceVariables(SourceEntry(calls[c].notificationType), 10) = {1, 2}
        /\ calls[c].result.type = "state"
        /\ calls[c].result.variableName = calls[c].ret.variables[1].name
        /\ calls[c].result.variableName # calls[c].ret.variables[2].name

\* C9: lookupValue returns absent exactly when the value is a key neither of
\* the events nor of any variable's states, and otherwise a descriptor; a
\* call for a type the loaded file does not have returns absent; and neither
\* changes the cache or the log.
C9_UnknownIsAbsent ==
    /\ \A c \in LookedUp :
          LET i == SourceEntry(calls[c].notificationType)
              known == \/ SourceEvents(i, calls[c].value) # {}
                       \/ SourceVariables(i, calls[c].value) # {}
          IN  /\ (calls[c].result = Undefined) <=> ~known
              /\ known => /\ "type" \in DOMAIN calls[c].result
                          /\ calls[c].result.type \in {"event", "state"}
              /\ notifications = [t |-> "Map", m |-> calls[c].outcome.v]
              /\ log = <<>>
    /\ \A c \in Calls :
          (/\ calls[c].pc = "done"
           /\ calls[c].outcome.t = "ok"
           /\ SourceEntry(calls[c].notificationType) = 0)
          => /\ calls[c].ret = Undefined
             /\ notifications = [t |-> "Map", m |-> calls[c].outcome.v]
             /\ log = <<>>

\* C9 witness: value 2 was looked up in a record that has an event and a
\* variable with a state, none of them for 2, and the lookup returned absent
C9_Witness ==
    \E c \in LookedUp :
        /\ calls[c].value = 2
        /\ calls[c].result = Undefined
        /\ DOMAIN calls[c].ret.events = {10}
        /\ Len(calls[c].ret.variables) = 1
        /\ DOMAIN calls[c].ret.variables[1].states = {10}

\* C10: when some variable of some notification of the file has no states
\* field, or one that is not an object, the load fails as malformed: the call
\* logs the failure, returns absent and leaves the cache empty.
C10_StatesRequired ==
    \A c \in Calls :
        (/\ calls[c].outcome # Pending
         /\ \E i \in 1..Len(RootEntriesOfFile) :
               \E j \in 1..Len(VariablesOfEntry(i)) : StatesBroken(i, j))
        => /\ calls[c].outcome = Throw(MalformedError)
           /\ calls[c].pc = "done" =>
                 /\ notifications = [t |-> "Map", m |-> <<>>]
                 /\ calls[c].ret = Undefined
                 /\ Len(log) = 1

\* C10 witness: the second variable of the second notification has no states
\* field, everything before it is well formed, and the call has returned
\* absent
C10_Witness ==
    /\ Len(RootEntriesOfFile) = 2
    /\ ~SomeKeyNotHex
    /\ Len(VariablesOfEntry(2)) = 2
    /\ ~StatesBroken(2, 1)
    /\ FieldOf(VariablesOfEntry(2)[2], KeyStates) = [t |-> "undefined"]
    /\ calls[1].pc = "done"
    /\ calls[1].ret = Undefined
    /\ notifications = [t |-> "Map", m |-> <<>>]

\* C16: a variables field that is left out or no array, and an events field
\* that is left out or no object, do not fail the load: a file whose root is
\* an object, whose keys are all hexadecimal and whose variables all have a
\* states object loads.  The record is then built with no variables (with no
\* events), and lookupValue on it returns no state (no event) for any value.
C16_VariablesAndEventsPermissive ==
    /\ \A c \in Calls :
          (/\ calls[c].outcome # Pending
           /\ RootIsObject
           /\ ~SomeKeyNotHex
           /\ \A i \in 1..Len(RootEntriesOfFile) :
                 \A j \in 1..Len(VariablesOfEntry(i)) : ~StatesBroken(i, j))
          => /\ calls[c].outcome.t = "ok"
             /\ \A type \in DOMAIN calls[c].outcome.v :
                   LET n == calls[c].outcome.v[type]
                       definition == RootEntriesOfFile[SourceEntry(type)].v
                   IN  /\ FieldOf(definition, KeyVariables).t # "array" =>
                             n.variables = <<>>
                       /\ FieldOf(definition, KeyEvents).t # "object" =>
                             DOMAIN n.events = {}
    /\ \A c \in LookedUp :
          LET definition == RootEntriesOfFile[SourceEntry(calls[c].notificationType)].v
              found == calls[c].result # Undefined
          IN  /\ (found /\ FieldOf(definition, KeyVariables).t # "array") =>
                    calls[c].result.type = "event"
              /\ (found /\ FieldOf(definition, KeyEvents).t # "object") =>
                    calls[c].result.type = "state"

\* C16 witness: the notification asked for has a number for variables and no
\* events field, and the lookup in the record has returned absent
C16_Witness ==
    \E c \in LookedUp :
        LET definition == RootEntriesOfFile[SourceEntry(calls[c].notificationType)].v
        IN  /\ FieldOf(definition, KeyVariables).t = "number"
            /\ FieldOf(definition, KeyEvents).t = "undefined"
            /\ calls[c].ret.variables = <<>>
            /\ DOMAIN calls[c].ret.events = {}
            /\ calls[c].result = Undefined

\* the entries of an events or states field (none when it is no object)
EntriesOfField(f) == IF f.t = "object" THEN f.entries ELSE <<>>

\* the numbers the keys of these entries denote
NumbersOf(es) == {KeyDenotes(es[e].k) : e \in 1..Len(es)}

\* the last of these entries whose key denotes value
LastDenoting(es, value) ==
    LET xs == {e \in 1..Len(es) : KeyDenotes(es[e].k) = value}
    IN  es[CHOOSE e \in xs : \A l \in xs : l <= e]

\* a map of events or states holds, under every number that a key of the
\* entries denotes, the record with that id built from the last such entry
KeyedByIds(map, es) ==
    /\ DOMAIN map = NumbersOf(es)
    /\ \A value \in DOMAIN map :
          /\ map[value].id = value
          /\ map[value].label = FieldOf(LastDenoting(es, value).v, KeyLabel)
          /\ map[value].description = FieldOf(LastDenoting(es, value).v, KeyDescription)

\* C17: after a successful load the map holds a record under exactly the
\* numbers the root keys denote, each record has the id it is stored under
\* and is built from the last root entry whose key denotes that number, and
\* the same holds for the events of every record and the states of every
\* variable; a call for a number returns the record with that id.
C17_KeysAreIds ==
    \A c \in Calls :
        (calls[c].outcome # Pending /\ calls[c].outcome.t = "ok") =>
           LET m == calls[c].outcome.v
           IN  /\ DOMAIN m = RootNumbers
               /\ \A type \in DOMAIN m :
                     LET definition == RootEntriesOfFile[SourceEntry(type)].v
                         variables == VariablesOfEntry(SourceEntry(type))
                     IN  /\ m[type].id = type
                         /\ m[type].name = FieldOf(definition, KeyName)
                         /\ KeyedByIds(m[type].events,
                                       EntriesOfField(FieldOf(definition, KeyEvents)))
                         /\ Len(m[type].variables) = Len(variables)
                         /\ \A j \in 1..Len(variables) :
                               KeyedByIds(m[type].variables[j].states,
                                          EntriesOfField(FieldOf(variables[j], KeyStates)))
               /\ calls[c].pc = "done" =>
                     IF calls[c].notificationType \in DOMAIN m
                     THEN calls[c].ret = m[calls[c].notificationType]
                     ELSE calls[c].ret = Undefined

\* C17 witness: the root has the keys 0x6 and 0x06, in this order, with
\* different definitions, and the call for 6 has returned the record built
\* from the second
C17_Witness ==
    /\ Len(RootEntriesOfFile) = 2
    /\ RootEntriesOfFile[1].k = <<"0", "x", "6">>
    /\ RootEntriesOfFile[2].k = <<"0", "x", "0", "6">>
    /\ FieldOf(RootEntriesOfFile[1].v, KeyName) # FieldOf(RootEntriesOfFile[2].v, KeyName)
    /\ calls[1].pc = "done"
    /\ calls[1].notificationType = 6
    /\ calls[1].ret.t = "Notification"
    /\ calls[1].ret.id = 6
    /\ calls[1].ret.name = FieldOf(RootEntriesOfFile[2].v, KeyName)
    /\ DOMAIN notifications.m = {6}

----------------------------------------------------------------------------
(* Claims about the idle flag of a variable, checked under SpecIdle *)

\* whether a variable whose source has this idle field can be idle, as the
\* specification has it: not when the field is the boolean false, and
\* otherwise (left out, true, a string, a number, null) always
IdleCapable(idle) ==
    CASE idle.t = "boolean" -> idle.v
      [] idle.t \in {"undefined", "string", "number", "null"} -> TRUE

\* C11: the idle flag of every variable of a loaded record is false exactly
\* when the idle field of its source is the boolean false, and true when the
\* field is left out, true, a string, 0 or null; and the descriptor tagged
\* "state" that lookupValue returns carries the flag of the variable the
\* state was found in.
C11_IdleOnlyExactFalse ==
    /\ \A c \in Calls :
          calls[c].outcome # Pending =>
             /\ calls[c].outcome.t = "ok"
             /\ LET n == calls[c].outcome.v[6]
                IN  /\ Len(n.variables) = Len(VariablesOfEntry(1))
                    /\ \A j \in 1..Len(n.variables) :
                          n.variables[j].idle =
                             IdleCapable(FieldOf(VariablesOfEntry(1)[j], KeyIdle))
    /\ \A c \in LookedUp :
          LET js == SourceVariables(1, calls[c].value)
          IN  IF js = {}
              THEN calls[c].result = Undefined
              ELSE LET j == CHOOSE x \in js : \A l \in js : x <= l
                   IN  /\ calls[c].result.type = "state"
                       /\ calls[c].result.idle =
                              IdleCapable(FieldOf(VariablesOfEntry(1)[j], KeyIdle))

\* C11 witness: the first variable has idle: false and the second idle: 0,
\* value 2 is a state of the second only, and the lookup of 2 has returned a
\* descriptor whose idle is true
C11_Witness ==
    \E c \in LookedUp :
        /\ Len(VariablesOfEntry(1)) = 2
        /\ FieldOf(VariablesOfEntry(1)[1], KeyIdle) = [t |-> "boolean", v |-> FALSE]
        /\ FieldOf(VariablesOfEntry(1)[2], KeyIdle).t = "number"
        /\ SourceVariables(1, 2) = {2}
        /\ calls[c].value = 2
        /\ calls[c].result.type = "state"
        /\ calls[c].result.idle = TRUE
        /\ calls[c].ret.variables[1].idle = FALSE

----------------------------------------------------------------------------
(* More claims about the lifecycle of the cache, checked under Spec *)

\* C12: once the cache is set, to a loaded map or to the empty map after a
\* missing or malformed file, no step of any call changes it, the completion
\* of a load that an overlapping call started earlier included.
C12_EstablishedNeverChanges ==
    [][notifications.t = "Map" => notifications' = notifications]_vars

\* the loader tells a missing file from a malformed one: a load that finds
\* no file settles with the missing-file error without starting a read, and
\* a load that got to the read never settles with it
C14_Loader ==
    /\ MissingError # MalformedError
    /\ \A c \in Calls :
          /\ (calls[c].pc = "pathExists" /\ calls'[c].pc # "pathExists"
                 /\ ~resource.exists) =>
                /\ calls'[c].pc = "settled"
                /\ \/ calls'[c].outcome = Throw(MissingError)
                   \/ UnexpectedFailure(calls'[c].outcome)
          /\ (calls[c].outcome = Pending /\ calls'[c].outcome = Throw(MissingError)) =>
                calls[c].pc = "pathExists" /\ ~resource.exists
          /\ (calls[c].pc = "readFile" /\ calls'[c].pc = "settled") =>
                calls'[c].outcome # Throw(MissingError)

\* both errors are recovered from in the same way: one line is logged with
\* the error's message, the cache becomes the empty map, the call returns
\* absent
C14_Recovery ==
    \A c \in Calls :
        (calls[c].pc = "settled"
           /\ calls[c].outcome \in {Throw(MissingError), Throw(MalformedError)}
           /\ calls'[c].pc # "settled") =>
          /\ calls'[c].pc = "done"
          /\ calls'[c].ret = Undefined
          /\ log' = Append(log, [text |-> "Could not load notification config: ",
                                 reason |-> calls[c].outcome.e.message,
                                 level |-> "error"])
          /\ notifications' = [t |-> "Map", m |-> <<>>]

\* the cache stays empty once a call has recovered from either error
C14_Permanent ==
    (\E c \in Calls : calls[c].pc = "done" /\ RecognizedFailure(calls[c].outcome)) =>
       notifications' = [t |-> "Map", m |-> <<>>]

\* C14: a missing file and a malformed file are different errors of the
\* loader; a load that finds no file fails with the missing-file error
\* before any read is started; and the call recovers from both in the same
\* way, with one logged line and a cache that is empty from then on.
C14_MissingAndMalformed == [][C14_Loader /\ C14_Recovery /\ C14_Permanent]_vars

\* the claim without the permanence of the empty cache
C14_LoaderAndRecovery == [][C14_Loader /\ C14_Recovery]_vars

\* a call made when the cache is set returns in the same step, with a record
\* or absent, without calling pathExists or readFile, whatever the other
\* calls are waiting for
C15_Step ==
    \A c \in Calls :
        (calls[c].pc = "idle" /\ calls'[c].pc # "idle" /\ notifications.t = "Map") =>
           /\ calls'[c].pc = "done"
           /\ calls'[c].outcome = Pending
           /\ calls'[c].ret = MapGet(notifications.m, calls'[c].notificationType)
           /\ notifications' = notifications

\* C15: a call made after the cache was set does no file I/O and returns at
\* once, so a read that hangs holds up only the calls made while the cache
\* was unset; and when every pathExists and readFile completes, every call
\* that was made returns a record, absent or an error.
C15_EveryCallReturns ==
    /\ [][C15_Step]_vars
    /\ \A c \in Calls : (calls[c].pc # "idle") ~> (calls[c].pc = "done")

\* C15 witness: the first call still waits for its read while the second has
\* loaded the file and the third, made after that, has returned the record
C15_Witness ==
    /\ calls[1].pc = "readFile"
    /\ calls[2].pc = "done"
    /\ calls[2].outcome.t = "ok"
    /\ calls[3].pc = "done"
    /\ calls[3].established
    /\ calls[3].outcome = Pending
    /\ calls[3].ret.t = "Notification"

----------------------------------------------------------------------------
(* Claims about the errors of the loader, checked under SpecErrors *)

\* whether a parsed value holds null somewhere
RECURSIVE HasNull(_)
HasNull(v) ==
    CASE v.t = "null" -> TRUE
      [] v.t = "object" -> \E i \in 1..Len(v.entries) : HasNull(v.entries[i].v)
      [] v.t = "array" -> \E i \in 1..Len(v.items) : HasNull(v.items[i])
      [] OTHER -> FALSE

\* reading the file as it is now raises an error that is no config error:
\* the file is gone, its text does not parse, or a definition is null
UntypedFailure ==
    \/ ~resource.exists
    \/ ~resource.text.parses
    \/ HasNull(resource.text.value)

\* C13: a load that got to reading the file settles with the map or with the
\* malformed-file error: it settles with the malformed-file error when
\* reading, parsing or building raises an error that is no config error, and
\* with the very config error when one is raised; and a load settles with any
\* other error only at the check for the file's existence, before the read.
C13_Step ==
    \A c \in Calls :
        /\ (calls[c].pc = "readFile" /\ calls'[c].pc = "settled") =>
              /\ calls'[c].outcome.t = "ok" \/ calls'[c].outcome = Throw(MalformedError)
              /\ UntypedFailure => calls'[c].outcome = Throw(MalformedError)
              /\ LET raised == TryBody(ReadFile(resource))
                 IN  (IsThrow(raised) /\ raised.e.zwave) => calls'[c].outcome = raised
        /\ (calls[c].outcome = Pending /\ UnexpectedFailure(calls'[c].outcome)) =>
              calls[c].pc = "pathExists"
        /\ (calls[c].pc = "settled" /\ IsThrow(calls'[c].ret)) =>
              /\ UnexpectedFailure(calls[c].outcome)
              /\ calls'[c].ret = calls[c].outcome

C13_ErrorsNormalized == [][C13_Step]_vars

\* C13 witness: an element of variables is null, and the call that read the
\* file has logged the malformed-file error and returned absent
C13_Witness ==
    /\ resource = FileWith(NullVariableFile)
    /\ calls[1].pc = "done"
    /\ calls[1].outcome = Throw(MalformedError)
    /\ calls[1].ret = Undefined
    /\ Len(log) = 1
    /\ log[1].reason = "The config file is malformed!"

====
